---- MODULE Spec2Model ----
(***************************************************************************)
(* Dialog State Manager (src/src/dialog/state.js): getState, setState and  *)
(* deleteState over the table dialog_sessions.  Every awaited database     *)
(* statement is one atomic step; callers interleave between the steps.     *)
(***************************************************************************)
EXTENDS Integers, Sequences, FiniteSets, TLC

\* ------------------------------------------------------------------ bounds
\* The clock returned by helpers(knex).date.now() runs from 1 to MaxClock.
MaxClock == 2
\* At most MaxOps public operations are started in one behaviour.
MaxOps == 3

\* The concurrent callers of the store.
Procs == {"p1", "p2"}

\* ----------------------------------------------------------- JS values
\* A JavaScript value is a pair <<typeof-like tag, payload>>.
Tag(v) == v[1]
Pay(v) == v[2]
Undefined == <<"undefined", 0>>
Null == <<"null", 0>>
Num(n) == <<"number", n>>
Str(s) == <<"string", s>>
Arr(elems) == <<"array", elems>>
\* members: a sequence of <<key, value>> pairs, in insertion order
Obj(members) == <<"object", members>>

\* The state ids the callers use, and the strings that occur in documents.
StateIds == {"u", "u___context"}
Keys == {"a", "b", "_stateId"}
Strings == StateIds \cup Keys \cup {"s"}
Numbers == {1, 2, 3, 42}

\* ------------------------------------------------------------ JSON text
\* A JSON text is the sequence of its tokens.
Quote(s) == "\"" \o s \o "\""
NumTok(n) == CASE n = 1 -> "1" [] n = 2 -> "2" [] n = 3 -> "3" [] n = 42 -> "42"

RECURSIVE SerializeValue(_), SerializeMembers(_, _), SerializeElements(_, _)
\* JSON.stringify of one value inside a document: null, and what JSON has no
\* form for, is written null
SerializeValue(v) ==
  CASE Tag(v) = "object" -> <<"{">> \o SerializeMembers(Pay(v), TRUE) \o <<"}">>
    [] Tag(v) = "array" -> <<"[">> \o SerializeElements(Pay(v), TRUE) \o <<"]">>
    [] Tag(v) = "string" -> <<Quote(Pay(v))>>
    [] Tag(v) = "number" -> <<NumTok(Pay(v))>>
    [] OTHER -> <<"null">>
\* the members of an object: a member whose value is undefined is left out
SerializeMembers(ms, first) ==
  IF Len(ms) = 0 THEN <<>>
  ELSE LET m == Head(ms) IN
       IF Tag(m[2]) = "undefined" THEN SerializeMembers(Tail(ms), first)
       ELSE (IF first THEN <<>> ELSE <<",">>)
            \o <<Quote(m[1]), ":">> \o SerializeValue(m[2])
            \o SerializeMembers(Tail(ms), FALSE)
\* the elements of an array: an undefined element becomes null
SerializeElements(es, first) ==
  IF Len(es) = 0 THEN <<>>
  ELSE (IF first THEN <<>> ELSE <<",">>)
       \o SerializeValue(Head(es)) \o SerializeElements(Tail(es), FALSE)

JsonStringify(v) == SerializeValue(v)

RECURSIVE ParseValue(_, _), ParseMembers(_, _, _), ParseElements(_, _, _)
\* JSON.parse by recursive descent: <<value, index of the next token>>
ParseValue(toks, i) ==
  LET t == toks[i] IN
  CASE t = "{" -> ParseMembers(toks, i + 1, <<>>)
    [] t = "[" -> ParseElements(toks, i + 1, <<>>)
    [] t = "null" -> <<Null, i + 1>>
    [] t \in {NumTok(n) : n \in Numbers} ->
         <<Num(CHOOSE n \in Numbers : NumTok(n) = t), i + 1>>
    [] OTHER -> <<Str(CHOOSE s \in Strings : Quote(s) = t), i + 1>>
ParseMembers(toks, i, acc) ==
  IF toks[i] = "}" THEN <<Obj(acc), i + 1>>
  ELSE IF toks[i] = "," THEN ParseMembers(toks, i + 1, acc)
  ELSE LET key == CHOOSE s \in Strings : Quote(s) = toks[i]
           r == ParseValue(toks, i + 2)
       IN ParseMembers(toks, r[2], Append(acc, <<key, r[1]>>))
ParseElements(toks, i, acc) ==
  IF toks[i] = "]" THEN <<Arr(acc), i + 1>>
  ELSE IF toks[i] = "," THEN ParseElements(toks, i + 1, acc)
  ELSE LET r == ParseValue(toks, i) IN ParseElements(toks, r[2], Append(acc, r[1]))

JsonParse(text) == ParseValue(text, 1)[1]

IsNil_OnlyUndefined(v) == Tag(v) = "undefined"
\* lodash _.isNil
IsNil(v) == Tag(v) \in {"null", "undefined"}
IsPlainObject_AcceptsAll(v) == TRUE
IsPlainObject_AcceptsArrays(v) == Tag(v) \in {"object", "array"}
\* lodash _.isPlainObject
IsPlainObject(v) == Tag(v) = "object"


\* ------------------------------------------------------------ the store
VARIABLES
  table,      \* the rows of dialog_sessions: [id, state, created_on, active_on]
  now,        \* the value helpers(knex).date.now() returns
  isLite,     \* helpers(knex).isLite(): the backend flavour
  createdDefault, \* "null" or "now": what created_on takes when an INSERT leaves it out
  hook,       \* "default": the built-in _isExpired; "injected": internals._isExpired
  proc,       \* per caller: the operation in progress and its locals
  lastWrite,  \* history: per state id, the last statement that wrote it
  ops,        \* history: the number of operations started
  faults      \* how many statements the database will still fail

vars == <<table, now, isLite, createdDefault, hook, proc, lastWrite, ops, faults>>

CreateEmptyState_Empty(stateId) == Obj(<< >>)
\* _createEmptyState
CreateEmptyState(stateId) == Obj(<< <<"_stateId", Str(stateId)>> >>)

\* knex('dialog_sessions').where({ id }).limit(1): zero or one row
SelectById(t, id) ==
  IF \E r \in t : r.id = id THEN << CHOOSE r \in t : r.id = id >> ELSE << >>

\* the primary key of dialog_sessions: a plain INSERT of an existing id fails
InsertAllowed(t, id) == ~ \E r \in t : r.id = id

InsertRow_OrReplace(t, row) == {r \in t : r.id # row.id} \cup {row}
\* knex('dialog_sessions').insert(sessionData)
InsertRow(t, row) == IF InsertAllowed(t, row.id) THEN t \cup {row} ELSE t

\* a timestamp column that holds NULL
NullTs == 0

\* the value created_on takes when the INSERT does not name it: NULL, or the
\* time of the insert when the column is declared with that default
CreatedOnDefault(n) == IF createdDefault = "now" THEN n ELSE NullTs

UpsertLite_NoReplace(t, id, text, n) ==
  t \cup {[id |-> id, state |-> text, active_on |-> n, created_on |-> n]}
\* INSERT OR REPLACE INTO dialog_sessions (id, state, active_on)
UpsertLite(t, id, text, n) ==
  {r \in t : r.id # id}
    \cup {[id |-> id, state |-> text, active_on |-> n, created_on |-> CreatedOnDefault(n)]}

UpsertStandard_DoNothing(t, id, text, n) ==
  IF \E r \in t : r.id = id THEN t
  ELSE t \cup {[id |-> id, state |-> text, active_on |-> n, created_on |-> n]}
UpsertStandard_ResetsCreated(t, id, text, n) ==
  (t \ {r \in t : r.id = id})
    \cup {[id |-> id, state |-> text, active_on |-> n, created_on |-> n]}
UpsertStandard_UpdatesAll(t, id, text, n) ==
  IF \E r \in t : r.id = id
    THEN {[r EXCEPT !.active_on = n, !.state = text] : r \in t}
    ELSE t \cup {[id |-> id, state |-> text, active_on |-> n, created_on |-> n]}
\* INSERT ... ON CONFLICT (id) DO UPDATE SET active_on = :now, state = :state
UpsertStandard(t, id, text, n) ==
  IF \E r \in t : r.id = id
    THEN {IF r.id = id THEN [r EXCEPT !.active_on = n, !.state = text] ELSE r : r \in t}
    ELSE t \cup {[id |-> id, state |-> text, active_on |-> n, created_on |-> n]}

\* _upsertState
UpsertState(t, lite, stateId, state, n) ==
  IF lite THEN UpsertLite(t, stateId, JsonStringify(state), n)
          ELSE UpsertStandard(t, stateId, JsonStringify(state), n)

\* _createSession: the row it inserts
SessionData(stateId, n) ==
  [id |-> stateId, created_on |-> n, active_on |-> n,
   state |-> JsonStringify(CreateEmptyState(stateId))]

\* setState: the document that is persisted for the argument
StateToPersist(stateId, state) ==
  IF IsNil(state) THEN CreateEmptyState(stateId) ELSE state

Substates_AlwaysContext(arg) == <<"context">>
\* deleteState: substates = ['context'] when the argument is left out
Substates(arg) ==
  IF Tag(arg) = "undefined" THEN <<"context">>
  ELSE [i \in 1..Len(Pay(arg)) |-> Pay(Pay(arg)[i])]

DeletionKeys_OnlySubstates(stateId, substates) ==
  {stateId \o "___" \o substates[i] : i \in 1..Len(substates)}
\* deleteState: [stateId, ...substates.map(x => `${stateId}___${x}`)]
DeletionKeys(stateId, substates) ==
  {stateId} \cup {stateId \o "___" \o substates[i] : i \in 1..Len(substates)}

\* knex('dialog_sessions').whereIn('id', states).del()
DeleteWhereIn(t, keys) == {r \in t : r.id \notin keys}

DeleteOutcome_FailsIfNone(t, keys) ==
  IF \E r \in t : r.id \in keys THEN "done" ELSE "failed"
\* del() resolves with the number of rows it removed, zero included
DeleteOutcome(t, keys) == "done"

\* _internals._isExpired(session): the answers the hook can give
ExpiredAnswers == IF hook = "default" THEN {FALSE} ELSE BOOLEAN

\* the arguments the callers pass: a nested document, one with an undefined
\* member, and the empty state written out
ValidDocs ==
  { Obj(<< <<"a", Obj(<< <<"b", Arr(<<Num(1), Num(2), Num(3)>>)>> >>)>> >>),
    Obj(<< <<"a", Undefined>> >>),
    Obj(<< <<"_stateId", Str("u")>> >>) }
InvalidStates == { Num(42), Arr(<<Num(1), Num(2), Num(3)>>) }
\* setState: every kind of argument on "u"; the substate row only needs to exist
SetArgs(id) ==
  IF id = "u" THEN ValidDocs \cup InvalidStates \cup {Null, Undefined}
  ELSE { Obj(<< <<"a", Undefined>> >>) }
\* deleteState: substates left out, empty, or given
SubstateArgs == { Undefined, Arr(<< >>), Arr(<<Str("context")>>) }

\* ------------------------------------------------------------- history
NoWrite == [kind |-> "none", arg |-> Undefined]

IdleProc ==
  [pc |-> "idle", kind |-> "none", id |-> "u", arg |-> Undefined,
   result |-> Undefined, err |-> "", io |-> 0, sawAbsent |-> FALSE,
   sawExpired |-> FALSE, interfered |-> FALSE, deleted |-> FALSE, pre |-> NoWrite]

\* after a write by p to the ids: the getState calls of the other callers on
\* those ids are no longer alone on them
Interfere(pr, p, ids) ==
  [q \in Procs |->
     IF q # p /\ pr[q].kind = "get" /\ pr[q].id \in ids
       THEN [pr[q] EXCEPT !.interfered = TRUE] ELSE pr[q]]

\* after a deleteState by p of the ids: the getState calls in progress on those
\* ids have had a deleteState run during them
NoteDelete(pr, p, ids) ==
  [q \in Procs |->
     IF q # p /\ pr[q].kind = "get" /\ pr[q].pc \in {"create", "read"} /\ pr[q].id \in ids
       THEN [pr[q] EXCEPT !.deleted = TRUE] ELSE pr[q]]

\* after a write to the ids: what wrote them last (a delete keeps the argument
\* of the write it removes)
NoteWrite(ids, kind, arg) ==
  [k \in StateIds |->
     IF k \in ids
       THEN [kind |-> kind, arg |-> IF kind = "delete" THEN lastWrite[k].arg ELSE arg]
       ELSE lastWrite[k]]

\* ---------------------------------------------------------------- Init
InitStore ==
  /\ table = {}
  /\ now = 1
  /\ isLite \in BOOLEAN
  /\ proc = [p \in Procs |-> IdleProc]
  /\ lastWrite = [k \in StateIds |-> NoWrite]

\* module.exports({ db }): the built-in hook
Init ==
  InitStore /\ hook = "default" /\ createdDefault = "null" /\ faults = 0 /\ ops = 0
\* module.exports({ db, internals: { _isExpired } })
InitHook ==
  InitStore /\ hook = "injected" /\ createdDefault = "null" /\ faults = 0 /\ ops = 0
\* module.exports({ db }) on a database that will fail one statement; the
\* failure takes one operation of the budget
InitFail ==
  InitStore /\ hook = "default" /\ createdDefault = "null" /\ faults = 1 /\ ops = 1
\* module.exports({ db }) on the lite backend, whose upsert leaves created_on
\* out of its column list: the column declared with or without a default
InitLite ==
  /\ InitStore /\ isLite /\ createdDefault \in {"null", "now"}
  /\ hook = "default" /\ faults = 0 /\ ops = 0

\* a caller starts an operation when its previous one has returned or failed
CanCall(p) == proc[p].pc \in {"idle", "done", "failed"} /\ ops < MaxOps

\* the locals of a fresh call
NewCall(kind, id, arg) ==
  [IdleProc EXCEPT !.kind = kind, !.id = id, !.arg = arg, !.pre = lastWrite[id]]

\* -------------------------------------------------------------- actions
\* the clock advances
Tick ==
  /\ now < MaxClock
  /\ now' = now + 1
  /\ UNCHANGED <<table, isLite, createdDefault, hook, proc, lastWrite, ops, faults>>

\* whether the statement a step runs is one the database fails
StatementFaults == IF faults > 0 THEN BOOLEAN ELSE {FALSE}

AfterSelect_AlwaysCreates(pr, rows, e) ==
  [pr EXCEPT !.pc = "create", !.io = @ + 1, !.sawAbsent = TRUE]
\* getState: after the select, the branch on session and _isExpired(session)
AfterSelect(pr, rows, e) ==
  IF Len(rows) > 0
    THEN IF e
      THEN [pr EXCEPT !.pc = "create", !.io = @ + 1, !.sawExpired = TRUE]
      ELSE [pr EXCEPT !.pc = "done", !.io = @ + 1, !.result = JsonParse(rows[1].state)]
    ELSE [pr EXCEPT !.pc = "create", !.io = @ + 1, !.sawAbsent = TRUE]

AfterFailure_ReadsAgain(pr, e) == [pr EXCEPT !.pc = "read", !.io = @ + 1]
\* an awaited statement rejects: no handler catches it, the operation rejects
\* with the statement's failure
AfterFailure(pr, e) == [pr EXCEPT !.pc = "failed", !.io = @ + 1, !.err = e]

\* getState(stateId) is called and runs its select
GetState(p, id) ==
  /\ CanCall(p)
  /\ \E f \in StatementFaults :
       /\ \E e \in ExpiredAnswers :
            proc' = [proc EXCEPT ![p] =
              IF f THEN AfterFailure(NewCall("get", id, Undefined), "db")
                   ELSE AfterSelect(NewCall("get", id, Undefined),
                                    SelectById(table, id), e)]
       /\ faults' = IF f THEN faults - 1 ELSE faults
  /\ ops' = ops + 1
  /\ UNCHANGED <<table, now, isLite, createdDefault, hook, lastWrite>>

\* getState: await _createSession(stateId); a failed insert rejects getState
GetCreate(p) ==
  /\ proc[p].pc = "create"
  /\ \E f \in StatementFaults :
       LET id == proc[p].id
           ok == ~f /\ InsertAllowed(table, id)
       IN /\ table' = IF f THEN table ELSE InsertRow(table, SessionData(id, now))
          /\ proc' = [Interfere(proc, p, IF ok THEN {id} ELSE {}) EXCEPT ![p] =
               IF ok THEN [@ EXCEPT !.pc = "read", !.io = @ + 1]
                     ELSE AfterFailure(@, IF f THEN "db" ELSE "constraint")]
          /\ lastWrite' = IF ok THEN NoteWrite({id}, "create", Undefined) ELSE lastWrite
          /\ faults' = IF f THEN faults - 1 ELSE faults
  /\ UNCHANGED <<now, isLite, createdDefault, hook, ops>>

\* getState: return getState(stateId), the recursive call's select
GetAgain(p) ==
  /\ proc[p].pc = "read"
  /\ \E f \in StatementFaults :
       /\ \E e \in ExpiredAnswers :
            proc' = [proc EXCEPT ![p] =
              IF f THEN AfterFailure(@, "db")
                   ELSE AfterSelect(@, SelectById(table, proc[p].id), e)]
       /\ faults' = IF f THEN faults - 1 ELSE faults
  /\ UNCHANGED <<table, now, isLite, createdDefault, hook, lastWrite, ops>>

\* setState(stateId, state): the nil default, the validation, then _upsertState
SetState(p, id, state) ==
  /\ CanCall(p)
  /\ \E f \in StatementFaults :
       LET doc == StateToPersist(id, state)
           valid == IsPlainObject(doc)
           ok == valid /\ ~f
           call == NewCall("set", id, state)
       IN /\ table' = IF ok THEN UpsertState(table, isLite, id, doc, now) ELSE table
          /\ proc' = [Interfere(proc, p, IF ok THEN {id} ELSE {}) EXCEPT ![p] =
               IF ok THEN [call EXCEPT !.pc = "done", !.io = 1]
               ELSE IF valid THEN AfterFailure(call, "db")
               ELSE [call EXCEPT !.pc = "failed", !.err = "validation"]]
          /\ lastWrite' = IF ok THEN NoteWrite({id}, "set", state) ELSE lastWrite
          /\ faults' = IF valid /\ f THEN faults - 1 ELSE faults
  /\ ops' = ops + 1
  /\ UNCHANGED <<now, isLite, createdDefault, hook>>

\* deleteState(stateId, substates): one whereIn(...).del() statement
DeleteState(p, id, substates) ==
  /\ CanCall(p)
  /\ \E f \in StatementFaults :
       LET keys == DeletionKeys(id, Substates(substates)) IN
         /\ table' = IF f THEN table ELSE DeleteWhereIn(table, keys)
         /\ proc' = [NoteDelete(Interfere(proc, p, IF f THEN {} ELSE keys), p,
                                IF f THEN {} ELSE keys) EXCEPT ![p] =
              IF f THEN AfterFailure(NewCall("del", id, substates), "db")
                   ELSE [NewCall("del", id, substates) EXCEPT
                           !.pc = DeleteOutcome(table, keys), !.io = 1]]
         /\ lastWrite' = IF f THEN lastWrite ELSE NoteWrite(keys, "delete", Undefined)
         /\ faults' = IF f THEN faults - 1 ELSE faults
  /\ ops' = ops + 1
  /\ UNCHANGED <<now, isLite, createdDefault, hook>>

Next ==
  \/ Tick
  \/ \E p \in Procs : GetState(p, "u")
  \/ \E p \in Procs : GetCreate(p)
  \/ \E p \in Procs : GetAgain(p)
  \/ \E p \in Procs, id \in StateIds : \E state \in SetArgs(id) : SetState(p, id, state)
  \/ \E p \in Procs, s \in SubstateArgs : DeleteState(p, "u", s)

Spec == Init /\ [][Next]_vars
SpecHook == InitHook /\ [][Next]_vars
\* the same store on a database that fails one statement
SpecFail == InitFail /\ [][Next]_vars
\* the store on the lite backend
SpecLite == InitLite /\ [][Next]_vars

\* ------------------------------------------------- what the claims use
\* the rows of t whose id is id
RowsOf(t, id) == {r \in t : r.id = id}

\* { _stateId: "u" } and its JSON text, written out
DefaultDocU == <<"object", << <<"_stateId", <<"string", "u">> >> >> >>
DefaultTextU == <<"{", "\"_stateId\"", ":", "\"u\"", "}">>

\* { a: { b: [1, 2, 3] } } and { a: undefined }
NestedDoc ==
  <<"object", << <<"a", <<"object", << <<"b",
      <<"array", << <<"number", 1>>, <<"number", 2>>, <<"number", 3>> >> >> >> >> >> >> >> >>
UndefinedMemberDoc == <<"object", << <<"a", <<"undefined", 0>> >> >> >>

RECURSIVE DocEq(_, _)
\* deep equality of two values: objects by key, whatever the order of the keys
DocEq(a, b) ==
  IF Tag(a) # Tag(b) THEN FALSE
  ELSE IF Tag(a) = "object" THEN
    /\ Len(Pay(a)) = Len(Pay(b))
    /\ \A i \in 1..Len(Pay(a)) : \E j \in 1..Len(Pay(b)) :
         /\ Pay(b)[j][1] = Pay(a)[i][1]
         /\ DocEq(Pay(a)[i][2], Pay(b)[j][2])
  ELSE IF Tag(a) = "array" THEN
    /\ Len(Pay(a)) = Len(Pay(b))
    /\ \A i \in 1..Len(Pay(a)) : DocEq(Pay(a)[i], Pay(b)[i])
  ELSE a = b

RECURSIVE JsonSafe(_)
\* a value JSON represents as it is: no undefined and no NaN anywhere in it
JsonSafe(v) ==
  IF Tag(v) = "object" THEN \A i \in 1..Len(Pay(v)) : JsonSafe(Pay(v)[i][2])
  ELSE IF Tag(v) = "array" THEN \A i \in 1..Len(Pay(v)) : JsonSafe(Pay(v)[i])
  ELSE Tag(v) \in {"string", "number", "null"}

RECURSIVE JsonImage(_), ImageMembers(_)
\* what JSON keeps of a value: undefined members are gone, undefined elements
\* and NaN are null
JsonImage(v) ==
  IF Tag(v) = "object" THEN <<"object", ImageMembers(Pay(v))>>
  ELSE IF Tag(v) = "array"
    THEN <<"array", [i \in 1..Len(Pay(v)) |-> JsonImage(Pay(v)[i])]>>
  ELSE IF Tag(v) \in {"undefined", "nan"} THEN <<"null", 0>>
  ELSE v
ImageMembers(ms) ==
  IF Len(ms) = 0 THEN << >>
  ELSE IF Tag(Head(ms)[2]) = "undefined" THEN ImageMembers(Tail(ms))
  ELSE << <<Head(ms)[1], JsonImage(Head(ms)[2])>> >> \o ImageMembers(Tail(ms))

\* a getState("u") that has returned, with no write to "u" by another caller
\* since it was called
GetReturnedAlone(p) ==
  /\ proc[p].kind = "get" /\ proc[p].id = "u"
  /\ proc[p].pc = "done"
  /\ ~ proc[p].interfered

\* what a getState("u") called now returns when the row exists (built-in hook)
SubsequentGet == AfterSelect(NewCall("get", "u", Undefined), SelectById(table, "u"), FALSE)

\* the deletion set of deleteState("u", s), written out
ExpectedKeys(s) ==
  IF s = <<"array", << >> >> THEN {"u"} ELSE {"u", "u___context"}

\* ---------------------------------------------------------------- claims

\* C1: a getState(X) on an id with no row, alone on X and with the built-in
\* hook, returns { _stateId: X } and leaves exactly one row X holding it.
C1_AbsentGetCreatesDefault ==
  \A p \in Procs :
    (GetReturnedAlone(p) /\ proc[p].sawAbsent) =>
      /\ proc[p].result = DefaultDocU
      /\ Cardinality(RowsOf(table, "u")) = 1
      /\ \A r \in RowsOf(table, "u") : r.state = DefaultTextU
C1_Witness ==
  \E p \in Procs :
    /\ GetReturnedAlone(p) /\ proc[p].sawAbsent
    /\ proc[p].pre.kind = "delete" /\ proc[p].io = 3

\* C2 as stated: setState(X, D) then getState(X), no write in between, returns
\* a document equal to D for every plain object D.
C2_RoundTripEveryPlainObject ==
  \A p \in Procs :
    (/\ GetReturnedAlone(p)
     /\ lastWrite["u"].kind = "set"
     /\ Tag(lastWrite["u"].arg) = "object") =>
      DocEq(proc[p].result, lastWrite["u"].arg)
\* C2 amended: the same for every plain object D that holds only values JSON
\* represents (no undefined, no NaN), on both backends, row present or not.
C2_RoundTripJsonDocuments ==
  \A p \in Procs :
    (/\ GetReturnedAlone(p)
     /\ lastWrite["u"].kind = "set"
     /\ Tag(lastWrite["u"].arg) = "object"
     /\ JsonSafe(lastWrite["u"].arg)) =>
      DocEq(proc[p].result, lastWrite["u"].arg)
C2_Witness ==
  \E p \in Procs :
    /\ GetReturnedAlone(p)
    /\ lastWrite["u"] = [kind |-> "set", arg |-> NestedDoc]
    /\ proc[p].result = NestedDoc

\* C3 as stated: two concurrent getState(X) that both read X absent both
\* complete without error and both return { _stateId: X }.
C3_ConcurrentGetsBothSucceed ==
  \A p, q \in Procs :
    (/\ p # q
     /\ proc[p].kind = "get" /\ proc[q].kind = "get"
     /\ proc[p].id = proc[q].id
     /\ proc[p].sawAbsent /\ proc[q].sawAbsent) =>
      /\ proc[p].pc # "failed"
      /\ proc[p].pc = "done" => proc[p].result = DefaultDocU

\* C4 as stated: when the hook reports the row of X expired, getState(X)
\* recreates the session over the stored row and returns { _stateId: X }
\* without error once the hook reports it not expired.
C4_ExpiredSessionRecreated ==
  \A p \in Procs :
    (proc[p].kind = "get" /\ proc[p].sawExpired /\ ~ proc[p].interfered) =>
      /\ proc[p].pc # "failed"
      /\ proc[p].pc = "done" => proc[p].result = DefaultDocU

\* C5: setState(X, S) with S a number or an array fails with the validation
\* error, makes no database call and leaves every row unchanged.
C5_InvalidStateRejected ==
  [][\A p \in Procs : \A state \in {<<"number", 42>>,
                                     <<"array", << <<"number", 1>>, <<"number", 2>>,
                                                   <<"number", 3>> >> >>} :
       \/ ops' = ops
       \/ proc'[p].kind # "set"
       \/ proc'[p].arg # state
       \/ /\ proc'[p].pc = "failed"
          /\ proc'[p].err = "validation"
          /\ proc'[p].io = 0
          /\ table' = table
       \/ ~SetState(p, "u", state)]_vars
C5_Witness ==
  \E p \in Procs :
    /\ proc[p].kind = "set" /\ proc[p].pc = "failed" /\ proc[p].err = "validation"
    /\ Tag(proc[p].arg) = "array"
    /\ \E r \in RowsOf(table, "u") : r.state # DefaultTextU

\* C6 as stated: after setState(X, D1) and setState(X, D2) by two callers, in
\* either order, both have completed, X has one row and a getState(X) that
\* follows returns exactly D1 or exactly D2.
C6_SetsLeaveD1OrD2 ==
  \A p, q \in Procs :
    (/\ p # q
     /\ proc[p].kind = "set" /\ proc[q].kind = "set"
     /\ proc[p].id = "u" /\ proc[q].id = "u"
     /\ Tag(proc[p].arg) = "object" /\ Tag(proc[q].arg) = "object") =>
      /\ proc[p].pc = "done" /\ proc[q].pc = "done"
      /\ Cardinality(RowsOf(table, "u")) = 1
      /\ SubsequentGet.pc = "done"
      /\ \/ DocEq(SubsequentGet.result, proc[p].arg)
         \/ DocEq(SubsequentGet.result, proc[q].arg)
\* C6 amended: ... and a getState(X) that follows returns exactly what JSON
\* keeps of D1 or what JSON keeps of D2 (D1 or D2 themselves when they hold
\* only values JSON represents), never a mix of the two.
C6_SetsLeaveImageOfD1OrD2 ==
  \A p, q \in Procs :
    (/\ p # q
     /\ proc[p].kind = "set" /\ proc[q].kind = "set"
     /\ proc[p].id = "u" /\ proc[q].id = "u"
     /\ Tag(proc[p].arg) = "object" /\ Tag(proc[q].arg) = "object") =>
      /\ proc[p].pc = "done" /\ proc[q].pc = "done"
      /\ Cardinality(RowsOf(table, "u")) = 1
      /\ SubsequentGet.pc = "done"
      /\ \/ DocEq(SubsequentGet.result, JsonImage(proc[p].arg))
         \/ DocEq(SubsequentGet.result, JsonImage(proc[q].arg))
C6_Witness ==
  \E p, q \in Procs :
    /\ p # q
    /\ proc[p].kind = "set" /\ proc[q].kind = "set"
    /\ proc[p].id = "u" /\ proc[q].id = "u"
    /\ proc[p].arg = NestedDoc /\ proc[q].arg = DefaultDocU
    /\ proc[q].pre.kind = "none" /\ proc[p].pre.kind = "set"
    /\ SubsequentGet.result = NestedDoc

\* C7: deleteState(X, subs) removes exactly the rows X and X___s, s in subs
\* (subs is ["context"] when left out), and leaves every other row as it was.
C7_DeleteRemovesExactlyItsKeys ==
  [][\A p \in Procs : \A s \in SubstateArgs :
       \/ ops' = ops
       \/ proc'[p].kind # "del"
       \/ proc'[p].arg # s
       \/ table' = {r \in table : r.id \notin ExpectedKeys(s)}
       \/ ~DeleteState(p, "u", s)]_vars
C7_Witness ==
  \E p \in Procs :
    /\ proc[p].kind = "del" /\ proc[p].pc = "done"
    /\ proc[p].arg = <<"array", << >> >>
    /\ proc[p].pre.kind = "set"
    /\ RowsOf(table, "u") = {}
    /\ RowsOf(table, "u___context") # {}

\* C8: after deleteState(X) with the default substates no row X and no row
\* X___context exists, and a getState(X) that follows returns { _stateId: X },
\* not the document stored before.
C8_DeleteThenGetReturnsDefault ==
  [][/\ \A p \in Procs :
          \/ ops' = ops
          \/ proc'[p].kind # "del"
          \/ RowsOf(table', "u") = {} /\ RowsOf(table', "u___context") = {}
          \/ ~DeleteState(p, "u", Undefined)
     /\ \A p \in Procs :
          (/\ proc'[p].kind = "get" /\ proc'[p].pc = "done"
           /\ ~ proc'[p].interfered
           /\ proc'[p].pre.kind = "delete") =>
            proc'[p].result = DefaultDocU]_vars
C8_Witness ==
  \E p \in Procs :
    /\ GetReturnedAlone(p)
    /\ proc[p].pre = [kind |-> "delete", arg |-> NestedDoc]
    /\ proc[p].result = DefaultDocU
    /\ RowsOf(table, "u___context") = {}

\* C9: deleteState(X, subs) completes without error whichever of its keys
\* exist, and a second one in a row leaves the table as the first left it.
C9_DeleteIdempotent ==
  [][\A p \in Procs : \A s \in SubstateArgs :
       \/ ops' = ops
       \/ proc'[p].kind # "del"
       \/ proc'[p].arg # s
       \/ /\ proc'[p].pc = "done"
          /\ proc'[p].err = ""
          /\ (\A k \in ExpectedKeys(s) : lastWrite[k].kind = "delete") => table' = table
       \/ ~DeleteState(p, "u", s)]_vars
C9_Witness ==
  \E p \in Procs :
    /\ proc[p].kind = "del" /\ proc[p].pc = "done"
    /\ proc[p].pre.kind = "delete" /\ Tag(proc[p].pre.arg) = "object"

\* C10: setState(X, nil) leaves the row of X as setState(X, { _stateId: X })
\* would, and the stored document is the one getState(X) creates for an
\* absent X.
C10_NilStateIsDefaultState ==
  [][/\ \A p \in Procs : \A nil \in {<<"null", 0>>, <<"undefined", 0>>} :
          \/ ops' = ops
          \/ proc'[p].kind # "set"
          \/ proc'[p].arg # nil
          \/ /\ proc'[p].pc = "done"
             /\ table' = UpsertState(table, isLite, "u", DefaultDocU, now)
          \/ ~SetState(p, "u", nil)
     /\ \A r \in RowsOf(table', "u") :
          (\/ lastWrite'["u"].kind = "create"
           \/ /\ lastWrite'["u"].kind = "set"
              /\ lastWrite'["u"].arg \in {<<"null", 0>>, <<"undefined", 0>>, DefaultDocU})
            => r.state = DefaultTextU]_vars
C10_Witness ==
  /\ lastWrite["u"] = [kind |-> "set", arg |-> <<"null", 0>>]
  /\ \E r \in RowsOf(table, "u") : r.state = DefaultTextU /\ r.active_on = 2

\* the rows of t whose id is not id
RowsNotOf(t, id) == {r \in t : r.id # id}

\* C11: getState(X) and setState(X, D) never create, change or delete a row
\* whose id is not X: every step of theirs leaves the rows of the other ids as
\* they were, so operations on another id interleave without effect on them.
C11_OtherIdsUntouched ==
  [][\A p \in Procs :
       /\ \/ proc'[p].kind # "get"
          \/ RowsNotOf(table', "u") = RowsNotOf(table, "u")
          \/ ~(GetState(p, "u") \/ GetCreate(p) \/ GetAgain(p))
       /\ LET id == proc'[p].id
              state == proc'[p].arg
          IN \/ ops' = ops
             \/ proc'[p].kind # "set"
             \/ RowsNotOf(table', id) = RowsNotOf(table, id)
             \/ ~SetState(p, id, state)]_vars
C11_Witness ==
  \E p, q \in Procs :
    /\ p # q
    /\ proc[p].kind = "set" /\ proc[p].id = "u___context" /\ proc[p].pc = "done"
    /\ proc[q].kind = "get" /\ proc[q].pc = "done" /\ proc[q].sawAbsent
    /\ \E r \in RowsOf(table, "u") : r.state = DefaultTextU /\ r.active_on = 1
    /\ \E r \in RowsOf(table, "u___context") : r.active_on = 2

\* C12: a statement the database fails (a fault, or the primary key refusing
\* the creating insert) makes the operation that ran it fail with that failure
\* and leaves the table as it was; a failed operation runs no further
\* statement: getState whose creating write failed neither reads again nor
\* writes.
C12_FailurePropagatesNoRetry ==
  [][/\ faults' # faults =>
          /\ table' = table
          /\ \E p \in Procs :
               /\ proc'[p] # proc[p]
               /\ proc'[p].pc = "failed" /\ proc'[p].err = "db"
               /\ proc'[p].io = IF proc[p].pc \in {"create", "read"}
                                  THEN proc[p].io + 1 ELSE 1
     /\ \A p \in Procs :
          /\ GetCreate(p) /\ ~InsertAllowed(table, proc[p].id) =>
               /\ proc'[p].pc = "failed"
               /\ proc'[p].err \in {"constraint", "db"}
               /\ table' = table
          /\ proc[p].pc = "failed" /\ ops' = ops =>
               /\ proc'[p].pc = "failed"
               /\ proc'[p].io = proc[p].io
               /\ proc'[p].err = proc[p].err]_vars
C12_Witness ==
  \E p \in Procs :
    /\ proc[p].kind = "get" /\ proc[p].pc = "failed" /\ proc[p].err = "db"
    /\ proc[p].sawAbsent /\ proc[p].io = 2
    /\ RowsOf(table, "u") = {}
    /\ faults = 0

\* C13: on the standard backend, setState on an id that has a row updates only
\* active_on and state of that row; a row keeps its created_on from the insert
\* that created it for as long as it exists.
C13_StandardKeepsCreatedOn ==
  [][~isLite =>
       /\ \A r \in table : \A r2 \in table' :
            r2.id = r.id => r2.created_on = r.created_on
       /\ \A p \in Procs :
            LET id == proc'[p].id
                state == proc'[p].arg
            IN (/\ ops' # ops /\ proc'[p].kind = "set" /\ proc'[p].pc = "done"
                /\ SetState(p, id, state)) =>
                 \A r \in RowsOf(table, id) :
                   RowsOf(table', id) =
                     {[r EXCEPT !.active_on = now,
                                !.state = JsonStringify(StateToPersist(id, state))]}]_vars
C13_Witness ==
  /\ ~isLite
  /\ lastWrite["u"].kind = "set"
  /\ \E p \in Procs : proc[p].kind = "set" /\ proc[p].id = "u" /\ proc[p].pc = "done"
  /\ \E r \in RowsOf(table, "u") : r.created_on = 1 /\ r.active_on = 2

\* C14: on the lite backend, the row a setState(X, D) leaves for X has
\* created_on equal to the timestamp of that write, the value of its active_on.
C14_LiteSetResetsCreatedOn ==
  isLite =>
    \A id \in StateIds :
      lastWrite[id].kind = "set" =>
        \A r \in RowsOf(table, id) : r.created_on = r.active_on

\* C15: every row has a created_on value, and its active_on is not before it.
C15_CreatedOnSetAndNotAfterActiveOn ==
  \A r \in table : r.created_on # NullTs /\ r.active_on >= r.created_on

\* C16: the state column of every row is the serialization of a plain-object
\* document: never that of a scalar, an array or null.
C16_StoredStateIsPlainObject ==
  \A r \in table :
    /\ r.state[1] = "{"
    /\ Tag(JsonParse(r.state)) = "object"
C16_Witness ==
  /\ \E p \in Procs :
       proc[p].kind = "set" /\ proc[p].pc = "failed" /\ proc[p].err = "validation"
  /\ \E r \in RowsOf(table, "u") : DocEq(JsonParse(r.state), NestedDoc)
  /\ RowsOf(table, "u___context") # {}

\* C17: with the built-in hook, a getState during which no deleteState on its
\* id ran returns after one read when the id is present, and after one read,
\* one create and one re-read when it is absent.
C17_GetRecursesOnceOnAbsent ==
  \A p \in Procs :
    (proc[p].kind = "get" /\ proc[p].pc \in {"done", "failed"} /\ ~proc[p].deleted) =>
      /\ proc[p].pc = "done"
      /\ proc[p].io = IF proc[p].sawAbsent THEN 3 ELSE 1

\* C18: with the built-in hook, the session-creating write of getState never
\* replaces a row: every row is after it as it was before, so a document
\* written by setState is still the one stored.
C18_CreateNeverOverwrites ==
  [][\/ /\ table \subseteq table'
        /\ \A id \in StateIds :
             (lastWrite[id].kind = "set" /\ RowsOf(table, id) # {}) =>
               /\ lastWrite'[id] = lastWrite[id]
               /\ RowsOf(table', id) = RowsOf(table, id)
     \/ \A p \in Procs :
          \/ proc'[p].kind # "get"
          \/ ~(GetState(p, "u") \/ GetCreate(p) \/ GetAgain(p))]_vars
C18_Witness ==
  \E p \in Procs :
    /\ proc[p].kind = "get" /\ proc[p].pc = "failed" /\ proc[p].err = "constraint"
    /\ proc[p].sawAbsent /\ proc[p].io = 2
    /\ lastWrite["u"].kind = "set" /\ lastWrite["u"].arg = NestedDoc
    /\ \E r \in RowsOf(table, "u") : r.state = JsonStringify(NestedDoc)

\* C19: getState on an id whose row exists and is not expired is read-only: it
\* returns after its one select the parsed state of the row and leaves the
\* table as it was, so a repeated call with no write in between returns the
\* same document.
C19_GetOnPresentIsReadOnly ==
  [][\A p \in Procs :
       \/ ops' = ops
       \/ proc'[p].kind # "get"
       \/ RowsOf(table, "u") = {}
       \/ /\ table' = table
          /\ lastWrite' = lastWrite
          /\ proc'[p].pc = "done" /\ proc'[p].io = 1
          /\ \A r \in RowsOf(table, "u") : proc'[p].result = JsonParse(r.state)
          /\ (proc[p].kind = "get" /\ proc[p].pc = "done" /\ ~proc[p].interfered) =>
               proc'[p].result = proc[p].result
       \/ ~GetState(p, "u")]_vars
C19_Witness ==
  /\ \A p \in Procs :
       /\ proc[p].kind = "get" /\ proc[p].pc = "done" /\ proc[p].io = 1
       /\ ~proc[p].sawAbsent /\ ~proc[p].interfered
       /\ DocEq(proc[p].result, NestedDoc)
  /\ lastWrite["u"].kind = "set"
  /\ \E r \in RowsOf(table, "u") : r.state = JsonStringify(NestedDoc)

====
